---- MODULE Spec2Model ----
(***************************************************************************)
(* A model of src/src/website_cloner.py (class WebsiteCloner): the URL     *)
(* helpers built on urllib.parse, the download routines with their         *)
(* tracking sets, scrape_page, find_internal_links and the crawl loop of   *)
(* scrape_full_site; and of what the other scripts share with it: the      *)
(* network calls and their timeouts, the rate limit of the fetch_page      *)
(* functions, the course code pattern of WLUScraper and                    *)
(* ProductScraper.scrape_products.                                         *)
(*                                                                         *)
(* Strings.  A Python str is a sequence of tokens.  The delimiter          *)
(* characters  : / ? # . _ [ ]  are tokens of their own; every maximal run *)
(* of other characters is one token (a "word").  Two words are never       *)
(* adjacent, so a string has exactly one token sequence and equality of    *)
(* token sequences is equality of strings.                                 *)
(***************************************************************************)
EXTENDS Integers, Sequences, FiniteSets, TLC

\* ------------------------------------------------------------------ str

Delims == {":", "/", "?", "#", ".", "_", "[", "]"}

IsWord(t) == t \notin Delims

\* str.lower() of one word: the words of the model that hold upper-case letters.
LowerTok(t) ==
  CASE t = "DATA" -> "data"
    [] t = "JavaScript" -> "javascript"
    [] t = "HTTPS" -> "https"
    [] t = "PNG" -> "png"
    [] t = "PDF" -> "pdf"
    [] OTHER -> t

Lower(s) == [i \in 1..Len(s) |-> LowerTok(s[i])]

\* The words that have a shorter word of an extension list as a proper prefix
\* ('.doc' in '.docx', '.woff' in '.woff2', '.doc' in '.docker').
WordPrefixes(t) ==
  CASE t = "docx" -> {"doc", "docx"}
    [] t = "docker" -> {"doc", "docker"}
    [] t = "xlsx" -> {"xls", "xlsx"}
    [] t = "woff2" -> {"woff", "woff2"}
    [] OTHER -> {t}

\* s.startswith(p)
StartsWith(s, p) == Len(s) >= Len(p) /\ SubSeq(s, 1, Len(p)) = p

\* s.endswith(p)
EndsWith(s, p) == Len(s) >= Len(p) /\ SubSeq(s, Len(s) - Len(p) + 1, Len(s)) = p

\* s.find(t) for a delimiter t, 1-based; 0 when t is not in s
Find(s, t) ==
  IF \E i \in 1..Len(s) : s[i] = t
  THEN CHOOSE i \in 1..Len(s) : s[i] = t /\ \A j \in 1..(i - 1) : s[j] # t
  ELSE 0

\* t in s, for a delimiter t
HasTok(s, t) == \E i \in 1..Len(s) : s[i] = t

\* ('.' + ext) in s, for an extension word ext: a '.' followed by a word that
\* starts with ext
HasExt(s, ext) ==
  \E i \in 1..(Len(s) - 1) : s[i] = "." /\ ext \in WordPrefixes(s[i + 1])

\* s.replace(a, b) for delimiters a, b
Replace(s, a, b) == [i \in 1..Len(s) |-> IF s[i] = a THEN b ELSE s[i]]

RECURSIVE LStrip(_, _)
\* s.lstrip(t)
LStrip(s, t) == IF s # <<>> /\ Head(s) = t THEN LStrip(Tail(s), t) ELSE s

RECURSIVE RStrip(_, _)
\* s.rstrip(t)
RStrip(s, t) ==
  IF s # <<>> /\ s[Len(s)] = t THEN RStrip(SubSeq(s, 1, Len(s) - 1), t) ELSE s

\* s.strip(t)
Strip(s, t) == RStrip(LStrip(s, t), t)

RECURSIVE Split(_, _)
\* s.split(t): the list of the pieces of s between the occurrences of t
Split(s, t) ==
  LET i == Find(s, t)
  IN  IF i = 0 THEN <<s>>
      ELSE <<SubSeq(s, 1, i - 1)>> \o Split(SubSeq(s, i + 1, Len(s)), t)

RECURSIVE Join(_, _)
\* t.join(parts)
Join(parts, t) ==
  IF parts = <<>> THEN <<>>
  ELSE IF Len(parts) = 1 THEN parts[1]
  ELSE parts[1] \o <<t>> \o Join(Tail(parts), t)

\* ------------------------------------------------------------ urllib.parse

\* urllib.parse.uses_relative and uses_netloc, cut to the schemes of the model
uses_relative == {<<>>, <<"http">>, <<"https">>}
uses_netloc == {<<>>, <<"http">>, <<"https">>}

\* s.split(t, 1)[0], and what follows the first t ('' when t is not in s)
Before(s, t) == IF Find(s, t) > 0 THEN SubSeq(s, 1, Find(s, t) - 1) ELSE s
After(s, t) == IF Find(s, t) > 0 THEN SubSeq(s, Find(s, t) + 1, Len(s)) ELSE <<>>

\* urlsplit's test for a scheme: url[:i], i = url.find(':'), starts with a
\* letter and holds only scheme characters
HasScheme(url) ==
  /\ Find(url, ":") > 1
  /\ IsWord(url[1])
  /\ \A k \in 1..(Find(url, ":") - 1) : IsWord(url[k]) \/ url[k] = "."

\* urllib.parse._splitnetloc(url, 2) for a url that starts with '//': the
\* netloc ends before the first of / ? #; stops are the places of these
NetlocStops(url) == {i \in 3..Len(url) : url[i] \in {"/", "?", "#"}}
NetlocLast(url, stops) ==
  IF stops = {} THEN Len(url)
  ELSE (CHOOSE i \in stops : \A j \in stops : i <= j) - 1
NetlocOf(url) ==
  IF StartsWith(url, <<"/", "/">>)
  THEN SubSeq(url, 3, NetlocLast(url, NetlocStops(url))) ELSE <<>>
AfterNetloc(url) ==
  IF StartsWith(url, <<"/", "/">>)
  THEN SubSeq(url, NetlocLast(url, NetlocStops(url)) + 1, Len(url)) ELSE url

\* urlsplit after the scheme and the netloc are cut off: the ValueError
\* ("Invalid IPv6 URL") of an unmatched bracket is err; then the fragment is
\* cut at the first '#' and the query at the first '?'
ParseTail(scheme, netloc, url) ==
  [err |-> HasTok(netloc, "[") # HasTok(netloc, "]"),
   scheme |-> scheme, netloc |-> netloc,
   path |-> Before(Before(url, "#"), "?"),
   query |-> After(Before(url, "#"), "?"),
   fragment |-> After(url, "#")]

ParseRest(scheme, url) == ParseTail(scheme, NetlocOf(url), AfterNetloc(url))

\* urllib.parse.urlparse(url, scheme=default): the parts (params are not
\* modelled: no string of the model holds ';')
urlparse(url, default) ==
  IF HasScheme(url)
  THEN ParseRest(Lower(Before(url, ":")), After(url, ":"))
  ELSE ParseRest(default, url)

\* s + sep + part when part is not empty
WithPart(s, sep, part) == IF part # <<>> THEN s \o <<sep>> \o part ELSE s

\* The '//' + netloc + path step of urlunsplit
NetlocAndPath(p) ==
  IF p.netloc # <<>>
     \/ (p.scheme # <<>> /\ p.scheme \in uses_netloc
         /\ ~StartsWith(p.path, <<"/", "/">>))
  THEN <<"/", "/">> \o p.netloc
       \o (IF p.path # <<>> /\ Head(p.path) # "/"
           THEN <<"/">> \o p.path ELSE p.path)
  ELSE p.path

\* scheme + ':' + url when there is a scheme
WithScheme(scheme, url) ==
  IF scheme # <<>> THEN scheme \o <<":">> \o url ELSE url

\* urllib.parse.urlunparse(parts)
urlunparse(p) ==
  WithPart(WithPart(WithScheme(p.scheme, NetlocAndPath(p)), "?", p.query),
           "#", p.fragment)

RECURSIVE ResolveDots(_, _)
\* The loop of urljoin over the path segments: '..' pops, '.' is skipped.
ResolveDots(segments, resolved) ==
  IF segments = <<>> THEN resolved
  ELSE IF Head(segments) = <<".", ".">>
  THEN ResolveDots(Tail(segments),
                   IF resolved = <<>> THEN <<>>
                   ELSE SubSeq(resolved, 1, Len(resolved) - 1))
  ELSE IF Head(segments) = <<".">> THEN ResolveDots(Tail(segments), resolved)
  ELSE ResolveDots(Tail(segments), Append(resolved, Head(segments)))

\* segments[1:-1] = filter(None, segments[1:-1])
FilterInner(segments) ==
  IF Len(segments) <= 2 THEN segments
  ELSE <<segments[1]>>
       \o SelectSeq(SubSeq(segments, 2, Len(segments) - 1), LAMBDA x : x # <<>>)
       \o <<segments[Len(segments)]>>

\* base_parts = bpath.split('/'), without its last piece unless that is ''
BaseParts(parts) ==
  IF parts[Len(parts)] # <<>> THEN SubSeq(parts, 1, Len(parts) - 1) ELSE parts

\* The segments urljoin resolves
Segments(bpath, path) ==
  IF Head(path) = "/" THEN Split(path, "/")
  ELSE FilterInner(BaseParts(Split(bpath, "/")) \o Split(path, "/"))

\* resolved_path, with the '' appended after a final '.' or '..'
Resolved(segments) ==
  IF segments[Len(segments)] \in {<<".">>, <<".", ".">>}
  THEN Append(ResolveDots(segments, <<>>), <<>>)
  ELSE ResolveDots(segments, <<>>)

\* '/'.join(resolved_path) or '/'
JoinedOrSlash(resolved) ==
  IF Join(resolved, "/") = <<>> THEN <<"/">> ELSE Join(resolved, "/")

Ok(val) == [err |-> FALSE, val |-> val]
Raised == [err |-> TRUE, val |-> <<>>]

\* urljoin once base (b) and url (u) are parsed
JoinParsed(url, b, u) ==
  IF b.err \/ u.err THEN Raised
  ELSE IF u.scheme # b.scheme \/ u.scheme \notin uses_relative THEN Ok(url)
  ELSE IF u.scheme \in uses_netloc /\ u.netloc # <<>> THEN Ok(urlunparse(u))
  ELSE IF u.path = <<>>
  THEN Ok(urlunparse([u EXCEPT
            !.netloc = IF u.scheme \in uses_netloc THEN b.netloc ELSE @,
            !.path = b.path,
            !.query = IF u.query = <<>> THEN b.query ELSE @]))
  ELSE Ok(urlunparse([u EXCEPT
            !.netloc = IF u.scheme \in uses_netloc THEN b.netloc ELSE @,
            !.path = JoinedOrSlash(Resolved(Segments(b.path, u.path)))]))

JoinWithBase(url, b) == JoinParsed(url, b, urlparse(url, b.scheme))

\* urllib.parse.urljoin(base, url): [err, val]
urljoin(base, url) ==
  IF base = <<>> THEN Ok(url)
  ELSE IF url = <<>> THEN Ok(base)
  ELSE JoinWithBase(url, urlparse(base, <<>>))

\* ------------------------------------------------- WebsiteCloner: URL helpers

\* The argument of WebsiteCloner(base_url): "https://example.test/"
start_url == <<"https", ":", "/", "/", "example", ".", "test", "/">>

\* self.base_url = base_url.rstrip('/')
base_url == RStrip(start_url, "/")

\* self.domain = urlparse(base_url).netloc
domain == urlparse(start_url, <<>>).netloc

RECURSIVE ReplaceWww(_)
\* s.replace('www.', '')
ReplaceWww(s) ==
  IF s = <<>> THEN <<>>
  ELSE IF StartsWith(s, <<"www", ".">>) THEN ReplaceWww(SubSeq(s, 3, Len(s)))
  ELSE <<Head(s)>> \o ReplaceWww(Tail(s))

\* The comparison of _is_same_domain, netloc being urlparse(url).netloc
SameDomainNetloc(dom, netloc) ==
  \/ netloc = dom
  \/ netloc = <<>>
  \/ netloc = <<"www", ".">> \o dom
  \/ netloc = ReplaceWww(dom)

\* WebsiteCloner._is_same_domain, for a site whose self.domain is dom
_is_same_domain(dom, url) == SameDomainNetloc(dom, urlparse(url, <<>>).netloc)

\* The first test of _normalize_url: the references it answers '' for
IsSkippedRef(url) ==
  \/ url = <<>>
  \/ StartsWith(url, <<"data", ":">>)
  \/ StartsWith(url, <<"javascript", ":">>)

\* _normalize_url without the _replace(fragment='')
DropFragmentForgotten(parsed) == urlunparse(parsed)

\* The fragment removal of _normalize_url: urlunparse(parsed._replace(fragment=''))
DropFragment(parsed) == urlunparse([parsed EXCEPT !.fragment = <<>>])

\* _normalize_url once absolute_url is parsed
NormalizeParsed(parsed) ==
  IF parsed.err THEN Raised ELSE Ok(DropFragment(parsed))

\* _normalize_url after urljoin
NormalizeJoined(j) ==
  IF j.err THEN Raised ELSE NormalizeParsed(urlparse(j.val, <<>>))

\* WebsiteCloner._normalize_url(url, base): [err, val]; err is the ValueError
\* urljoin or urlparse raises, val the str returned ('' is <<>>).
_normalize_url(url, base) ==
  IF IsSkippedRef(url) THEN Ok(<<>>)
  ELSE NormalizeJoined(urljoin(IF base = <<>> THEN base_url ELSE base, url))

\* path.strip('/'), or 'index.html' when that is empty or ends with '/'
PathOrIndex(stripped) ==
  IF stripped = <<>> \/ EndsWith(stripped, <<"/">>)
  THEN <<"index", ".", "html">> ELSE stripped

\* _get_filename_from_url without the replacement of the separators
FlattenPathForgotten(path) == path

\* The separator replacement of _get_filename_from_url
FlattenPath(path) == Replace(path, "/", "_")

\* filename.split('?')[0], then '.html' added when there is no '.'
WithExtension(filename) ==
  IF HasTok(Before(filename, "?"), ".") THEN Before(filename, "?")
  ELSE Before(filename, "?") \o <<".", "html">>

\* WebsiteCloner._get_filename_from_url(url, prefix)
_get_filename_from_url(url, prefix) ==
  prefix
  \o WithExtension(FlattenPath(PathOrIndex(Strip(urlparse(url, <<>>).path, "/"))))

\* ------------------------------------------------------------ the run's state

VARIABLES
  pc,                \* where scrape_full_site is: "loop", "done" or "crashed"
  max_pages,         \* the argument of scrape_full_site
  pages_to_visit,    \* the local set of scrape_full_site
  visited_pages,     \* self.visited_pages
  downloaded_images, \* self.downloaded_images
  downloaded_css,    \* self.downloaded_css
  downloaded_js,     \* self.downloaded_js
  inline_styles,     \* len(self.inline_styles)
  files,             \* the output tree: <<directory, filename>> -> [src, body]
  summary,           \* scrape_summary.json: the documents written, in order
  page_gets,         \* history: page URL -> requests.get calls of scrape_page
  asset_gets,        \* history: asset URL -> requests.get calls of the downloads
  failed_pages,      \* history: the URLs whose page GET failed in scrape_page
  rewrites,          \* history: the references replaced, [kind, url, local]
  events,            \* history: what the last iteration of the loop did, in
                     \* order: "page" (the page GET), "asset" (an asset
                     \* GET), "sleep" (time.sleep(delay))
  distance,          \* history: discovered page URL -> the least number of
                     \* links it was found to be away from the start URL
  call,              \* a requests.get call of one of the scripts on its own:
                     \* [site, timeout, elapsed, status], timeout being <<>>
                     \* or <<seconds>>, status "idle", "waiting", "response"
                     \* or "failure"
  console,           \* the lines the download routines have written to
                     \* stdout, as a set of [text, arg]
  limiter,           \* the rate limiter of one fetch function and the clock
  scraper,           \* a run of ProductScraper.scrape_products on its own
  norm               \* calls of a URL helper on their own, outside a crawl:
                     \* [pc, url, base, once, twice] for _normalize_url and
                     \* its call on its own result, [pc, url, other, base,
                     \* ret, ret_other] for its calls on two references,
                     \* [pc, site, url, ret] for _is_same_domain

vars == <<pc, max_pages, pages_to_visit, visited_pages, downloaded_images,
          downloaded_css, downloaded_js, inline_styles, files, summary,
          page_gets, asset_gets, failed_pages, rewrites, distance, events,
          console, call, limiter, scraper, norm>>

\* The largest max_pages a run is started with
MaxCap == 3

\* d[key] = v
Put(d, key, v) == [x \in DOMAIN d \cup {key} |-> IF x = key THEN v ELSE d[x]]

\* The number of requests counted for url
Count(d, url) == IF url \in DOMAIN d THEN d[url] ELSE 0

\* One more request for url
Bump(d, url) == Put(d, url, Count(d, url) + 1)

Empty == [x \in {} |-> 0]

\* ---------------------------------------------------------- the remote site

\* What the server and the network do during one call of scrape_page is an
\* oracle o: pageok (the page GET succeeds), page (the parsed document: the
\* hrefs of its <a> elements, its asset elements in document order, the number
\* of <style> elements), cssbody (the url() references of a stylesheet fetched
\* during the call) and get (the outcomes of the asset GETs, in the order they
\* are issued).

LinkA == <<"/", "a">>
LinkB == <<"/", "b">>
LinkRoot == <<"/">>
LinkBad == <<"http", ":", "/", "/", "[">>
RefImg == <<"/", "img", "/", "bg", ".", "png">>
RefCss == <<"styles", ".", "css">>
RefJs == <<"/", "app", ".", "js">>
CssRefImg == <<".", ".", "/", "img", "/", "bg", ".", "png">>
CssRefFont == <<"f", ".", "woff2">>

E(tag, ref) == [tag |-> tag, ref |-> ref]

LinkPool == {LinkA, LinkB, LinkRoot, LinkBad}

\* The asset elements of a page: one of each kind, an image twice, one URL
\* as <script> and as <img>, a stylesheet under two references, an image as
\* icon and in a style attribute, a font in two style attributes, a malformed
\* reference.
ElemSeqs ==
  { <<E("img", RefImg)>>,
    <<E("img", RefImg), E("img", RefImg)>>,
    <<E("css", RefCss)>>,
    <<E("css", RefCss), E("css", <<"/">> \o RefCss)>>,
    <<E("js", RefJs)>>,
    <<E("js", RefImg), E("img", RefImg)>>,
    <<E("icon", RefImg), E("style", RefImg)>>,
    <<E("style", CssRefFont), E("style", CssRefFont)>>,
    <<E("img", RefImg), E("img", LinkBad)>> }

CssBodies == {<<>>, <<CssRefImg>>, <<CssRefFont>>, <<CssRefImg, CssRefFont>>}

\* The documents of the crawl: any set of links, without an image, with one,
\* or with one whose src is malformed
Responses ==
  {[links |-> L, elems |-> e, styles |-> 0] :
     L \in SUBSET LinkPool,
     e \in {<<>>, <<E("img", RefImg)>>, <<E("img", LinkBad)>>}}

\* The documents of a two-page site (the start page may link to /a) with any
\* of the asset elements
AssetResponses ==
  {[links |-> L, elems |-> e, styles |-> 1] :
     L \in {{}, {LinkA}}, e \in ElemSeqs \cup {<<>>}}

WellFormed(ref) == ~urlparse(ref, <<>>).err

\* The documents of the crawl without a malformed reference
WellFormedResponses ==
  {r \in Responses : /\ \A l \in r.links : WellFormed(l)
                     /\ \A i \in 1..Len(r.elems) : WellFormed(r.elems[i].ref)}

\* The test requests puts to a parsed URL before it sends anything
FetchableParsed(p) ==
  ~p.err /\ p.scheme \in {<<"http">>, <<"https">>} /\ p.netloc # <<>>

\* requests sends a GET only for an http(s) URL with a host; for anything else
\* requests.get raises (InvalidSchema, MissingSchema, InvalidURL) before any
\* request.
Fetchable(url) == FetchableParsed(urlparse(url, <<>>))

\* Every reference a document or a stylesheet of the model holds
RefPool ==
  LinkPool
  \cup UNION {{e[i].ref : i \in 1..Len(e)} : e \in ElemSeqs}
  \cup UNION {{c[i] : i \in 1..Len(c)} : c \in CssBodies}

HasCss(page) == \E i \in 1..Len(page.elems) : page.elems[i].tag = "css"

RECURSIVE GetBound(_, _)
\* No call of scrape_page on a page with these elements issues more asset
\* GETs than this: one per element, and one more per url() of a stylesheet
GetBound(elems, cssbody) ==
  IF elems = <<>> THEN 0
  ELSE (IF Head(elems).tag = "css" THEN 1 + Len(cssbody) ELSE 1)
       + GetBound(Tail(elems), cssbody)

\* ------------------------------------------------ WebsiteCloner: downloads

\* The cloner's state as one record w, threaded through the calls of one
\* scrape_page; w.k is the number of asset GETs the call has issued.
World ==
  [visited |-> visited_pages, imgs |-> downloaded_images,
   css |-> downloaded_css, js |-> downloaded_js, inline |-> inline_styles,
   files |-> files, pgets |-> page_gets, agets |-> asset_gets,
   failed |-> failed_pages, rw |-> rewrites, k |-> 0, ev |-> <<>>,
   out |-> console]

\* print(f"  {text}: {arg}") in a download routine
Says(w, text, arg) ==
  [w EXCEPT !.out = @ \cup {[text |-> text, arg |-> arg]}]

\* requests.get(url, ...) followed by raise_for_status(), in a download
\* routine: [w, ok]
Get(w, url, o) ==
  IF Fetchable(url)
  THEN [w |-> [w EXCEPT !.agets = Bump(@, url), !.k = @ + 1,
                        !.ev = Append(@, "asset")],
        ok |-> o.get[w.k + 1]]
  ELSE [w |-> w, ok |-> FALSE]

\* open(filepath, 'w').write(...) under output_dir/dir
WriteFile(w, dir, filename, src, body) ==
  [w EXCEPT !.files = Put(@, <<dir, filename>>, [src |-> src, body |-> body])]

\* What a download routine returns, with the state it leaves
Ret(w, ret) == [w |-> w, ret |-> ret]

\* The 'if img_url in self.downloaded_images' test of download_image
ImageKnown(w, img_url) == img_url \in w.imgs

\* download_image returning the filename although the GET failed
StoreImageNamedAnyway(g, img_url, filename) ==
  IF g.ok
  THEN Ret(Says([WriteFile(g.w, "images", filename, img_url, <<>>)
                   EXCEPT !.imgs = @ \cup {img_url}],
                "Downloaded image", filename), filename)
  ELSE Ret(Says(g.w, "Error downloading image", img_url), filename)

\* The try block of download_image after the GET g
StoreImage(g, img_url, filename) ==
  IF g.ok
  THEN Ret(Says([WriteFile(g.w, "images", filename, img_url, <<>>)
                   EXCEPT !.imgs = @ \cup {img_url}],
                "Downloaded image", filename), filename)
  ELSE Ret(Says(g.w, "Error downloading image", img_url), <<>>)

\* download_image naming a known image with another prefix than a new one
download_image_renamed(w, img_url, o) ==
  IF ImageKnown(w, img_url)
  THEN Ret(w, _get_filename_from_url(img_url, <<"image", "_">>))
  ELSE StoreImage(Get(w, img_url, o), img_url,
                  _get_filename_from_url(img_url, <<"img", "_">>))

\* WebsiteCloner.download_image(img_url): [w, ret]
download_image(w, img_url, o) ==
  IF ImageKnown(w, img_url)
  THEN Ret(w, _get_filename_from_url(img_url, <<"img", "_">>))
  ELSE StoreImage(Get(w, img_url, o), img_url,
                  _get_filename_from_url(img_url, <<"img", "_">>))

\* The try block of _download_font after the GET g
StoreFont(g, font_url, filename) ==
  IF g.ok
  THEN Ret(Says(WriteFile(g.w, "fonts", filename, font_url, <<>>),
                "Downloaded font", filename), filename)
  ELSE Ret(Says(g.w, "Error downloading font", font_url), <<>>)

\* WebsiteCloner._download_font(font_url): [w, ret]
_download_font(w, font_url, o) ==
  StoreFont(Get(w, font_url, o), font_url,
            _get_filename_from_url(font_url, <<"font", "_">>))

\* The 'if js_url in self.downloaded_js' test of download_js
JsKnown(w, js_url) == js_url \in w.js

\* The try block of download_js after the GET g
StoreJs(g, js_url, filename) ==
  IF g.ok
  THEN Ret(Says([WriteFile(g.w, "js", filename, js_url, <<>>)
                   EXCEPT !.js = @ \cup {js_url}],
                "Downloaded JS", filename), filename)
  ELSE Ret(Says(g.w, "Error downloading JS", js_url), <<>>)

\* WebsiteCloner.download_js(js_url): [w, ret]
download_js(w, js_url, o) ==
  IF JsKnown(w, js_url)
  THEN Ret(w, _get_filename_from_url(js_url, <<"script", "_">>))
  ELSE StoreJs(Get(Says(w, "Downloading JS", js_url), js_url, o), js_url,
               _get_filename_from_url(js_url, <<"script", "_">>))

ImageExts == {"png", "jpg", "jpeg", "gif", "svg", "webp", "ico"}
FontExts == {"woff", "woff2", "ttf", "eot", "otf"}

\* any(ext in s for ext in exts), s being lowered already
HasAnyExt(s, exts) == \E ext \in exts : HasExt(s, ext)

\* The local reference a rewritten attribute or url() gets: '../<dir>/<name>'
LocalRef(dir, filename) == <<".", ".", "/", dir, "/">> \o filename

\* A reference to url replaced by a local one, noted in the history with the
\* kind of download ("image", "font", "css", "js") that named the file
Rewritten(w, kind, url, local) ==
  [w EXCEPT !.rw = @ \cup {[kind |-> kind, url |-> url, local |-> local]}]

\* What the handling of one reference gives: the state, the text the
\* reference ends as, and whether an exception left the handling
Out(w, out, err) == [w |-> w, out |-> out, err |-> err]

\* 'if local_filename: return <local reference>', d being what the download
\* of absolute_url returned; otherwise the reference stays as ref
Replaced(d, kind, dir, absolute_url, ref) ==
  IF d.ret # <<>>
  THEN Out(Rewritten(d.w, kind, absolute_url, LocalRef(dir, d.ret)),
           LocalRef(dir, d.ret), FALSE)
  ELSE Out(d.w, ref, FALSE)

\* replace_url after absolute_url = self._normalize_url(url, css_url) = n
ReplaceNormalized(w, url, n, o) ==
  IF n.err THEN Out(w, url, TRUE)
  ELSE IF n.val = <<>> THEN Out(w, url, FALSE)
  ELSE IF HasAnyExt(Lower(n.val), ImageExts)
  THEN Replaced(download_image(w, n.val, o), "image", "images", n.val, url)
  ELSE IF HasAnyExt(Lower(n.val), FontExts)
  THEN Replaced(_download_font(w, n.val, o), "font", "fonts", n.val, url)
  ELSE Out(w, url, FALSE)

\* replace_url of _process_css_urls, for one url(...) match whose argument is
\* url: [w, out, err]; err is an exception that leaves _process_css_urls
replace_url(w, url, css_url, o) ==
  IF StartsWith(url, <<"data", ":">>)
     \/ StartsWith(url, <<".", ".", "/", "images", "/">>)
  THEN Out(w, url, FALSE)
  ELSE ReplaceNormalized(w, url, _normalize_url(url, css_url), o)

\* What a pass over several references gives: the state, the texts in order
Body(w, body, err) == [w |-> w, body |-> body, err |-> err]

\* out put in front of the texts of rest
Cons(out, rest) == Body(rest.w, <<out>> \o rest.body, rest.err)

RECURSIVE _process_css_urls(_, _, _, _)
RECURSIVE ProcessCssRest(_, _, _, _)
\* WebsiteCloner._process_css_urls(css_content, css_url), css_content being
\* the arguments of its url(...) matches in order: [w, body, err]
_process_css_urls(w, css_content, css_url, o) ==
  IF css_content = <<>> THEN Body(w, <<>>, FALSE)
  ELSE ProcessCssRest(replace_url(w, Head(css_content), css_url, o),
                      Tail(css_content), css_url, o)

\* re.sub going on after the match that gave r
ProcessCssRest(r, css_content, css_url, o) ==
  IF r.err THEN Body(r.w, <<>>, TRUE)
  ELSE Cons(r.out, _process_css_urls(r.w, css_content, css_url, o))

\* download_css without its test for a stylesheet it already has
CssKnownNever(w, css_url) == FALSE

\* The 'if css_url in self.downloaded_css' test of download_css
CssKnown(w, css_url) == css_url \in w.css

\* The end of the try block of download_css, p being what
\* _process_css_urls gave
StoreCss(p, css_url, filename) ==
  IF p.err THEN Ret(Says(p.w, "Error downloading CSS", css_url), <<>>)
  ELSE Ret(Says([WriteFile(p.w, "css", filename, css_url, p.body)
                   EXCEPT !.css = @ \cup {css_url}],
                "Downloaded CSS", filename), filename)

\* The try block of download_css after the GET g
ProcessCss(g, css_url, o) ==
  IF ~g.ok THEN Ret(Says(g.w, "Error downloading CSS", css_url), <<>>)
  ELSE StoreCss(_process_css_urls(g.w, o.cssbody, css_url, o), css_url,
                _get_filename_from_url(css_url, <<"style", "_">>))

\* WebsiteCloner.download_css(css_url): [w, ret]
download_css(w, css_url, o) ==
  IF CssKnown(w, css_url)
  THEN Ret(w, _get_filename_from_url(css_url, <<"style", "_">>))
  ELSE ProcessCss(Get(Says(w, "Downloading CSS", css_url), css_url, o),
                  css_url, o)

\* ---------------------------------------------- WebsiteCloner.scrape_page

\* The download an element's tag selects, of the URL its reference
\* normalizes to, and the rewrite of the attribute
Download(w, e, absolute_url, o) ==
  IF e.tag = "css"
  THEN Replaced(download_css(w, absolute_url, o), "css", "css",
                absolute_url, e.ref)
  ELSE IF e.tag = "js"
  THEN Replaced(download_js(w, absolute_url, o), "js", "js",
                absolute_url, e.ref)
  ELSE Replaced(download_image(w, absolute_url, o), "image", "images",
                absolute_url, e.ref)

\* An element with a reference, n being self._normalize_url(e.ref, url)
ProcessNormalized(w, e, n, o) ==
  IF n.err THEN Out(w, e.ref, TRUE)
  ELSE IF n.val = <<>> THEN Out(w, e.ref, FALSE)
  ELSE IF e.tag = "img" /\ StartsWith(n.val, <<"data", ":">>)
  THEN Out(w, e.ref, FALSE)
  ELSE Download(w, e, n.val, o)

\* elem['style'] = self._process_css_urls(style, url), p being what it gave
StyleOut(p, e) == Out(p.w, IF p.err THEN e.ref ELSE p.body[1], p.err)

\* One element of the page in its loop of scrape_page: [w, out, err]; out is
\* the value the attribute ends with, err an exception that reaches the
\* except of scrape_page.
ProcessElem(w, e, url, o) ==
  IF e.tag = "style" THEN StyleOut(_process_css_urls(w, <<e.ref>>, url, o), e)
  ELSE IF e.ref = <<>> THEN Out(w, e.ref, FALSE)
  ELSE ProcessNormalized(w, e, _normalize_url(e.ref, url), o)

RECURSIVE ProcessElems(_, _, _, _)
RECURSIVE ProcessElemsRest(_, _, _, _, _)
\* The five loops of scrape_page over elems: [w, body, err]
ProcessElems(w, elems, url, o) ==
  IF elems = <<>> THEN Body(w, <<>>, FALSE)
  ELSE ProcessElemsRest(ProcessElem(w, Head(elems), url, o), Head(elems).tag,
                        Tail(elems), url, o)

\* The loops going on after the element that gave r
ProcessElemsRest(r, tag, elems, url, o) ==
  IF r.err THEN Body(r.w, <<>>, TRUE)
  ELSE Cons(E(tag, r.out), ProcessElems(r.w, elems, url, o))

\* The elements with this tag, in document order
WithTag(elems, tag) == SelectSeq(elems, LAMBDA e : e.tag = tag)

\* The order scrape_page visits the elements in: stylesheets, images, style
\* attributes, scripts, icons, each in document order
InScrapeOrder(elems) ==
  WithTag(elems, "css") \o WithTag(elems, "img") \o WithTag(elems, "style")
  \o WithTag(elems, "js") \o WithTag(elems, "icon")

\* scrape_page without its test of visited_pages
AlreadyVisitedNever(w, url) == FALSE

\* The 'if url in self.visited_pages' test of scrape_page
AlreadyVisited(w, url) == url \in w.visited

\* self.visited_pages.add(url)
MarkVisited(visited, url) == visited \cup {url}

\* What scrape_page returns: None, or the soup (its <a> hrefs are all
\* find_internal_links reads)
None == [none |-> TRUE, links |-> {}]
Soup(page) == [none |-> FALSE, links |-> page.links]

\* What scrape_page returns, with the state it leaves
Scraped(w, soup) == [w |-> w, soup |-> soup]

\* The page GET of scrape_page: requests.get(url, ...) and raise_for_status()
GetPage(w, url, o) ==
  IF Fetchable(url)
  THEN [w |-> [w EXCEPT !.pgets = Bump(@, url), !.ev = Append(@, "page")],
        ok |-> o.pageok]
  ELSE [w |-> w, ok |-> FALSE]

\* The end of scrape_page, p being what the loops over the elements gave:
\* the HTML file is written, or the except block returns None
SavePage(p, url, o) ==
  IF p.err THEN Scraped(p.w, None)
  ELSE Scraped(WriteFile(p.w, "html",
                         _get_filename_from_url(url, <<"page", "_">>),
                         url, p.body),
               Soup(o.page))

\* The try block of scrape_page after the page GET g
ScrapeFetched(g, url, o) ==
  IF ~g.ok THEN Scraped([g.w EXCEPT !.failed = @ \cup {url}], None)
  ELSE SavePage(ProcessElems([g.w EXCEPT !.visited = MarkVisited(@, url),
                                         !.inline = @ + o.page.styles],
                             InScrapeOrder(o.page.elems), url, o),
                url, o)

\* WebsiteCloner.scrape_page(url): [w, soup]
scrape_page(w, url, o) ==
  IF AlreadyVisited(w, url) THEN Scraped(w, None)
  ELSE ScrapeFetched(GetPage(w, url, o), url, o)

\* -------------------------------------- WebsiteCloner.find_internal_links

NonHtmlExts == {"pdf", "zip", "doc", "xls"}

\* The test find_internal_links puts to a normalized href
IsInternalPage(absolute_url) ==
  /\ absolute_url # <<>>
  /\ _is_same_domain(domain, absolute_url)
  /\ ~HasAnyExt(Lower(absolute_url), NonHtmlExts)

\* The links find_internal_links keeps, normalized being what _normalize_url
\* gave for the hrefs
InternalLinks(normalized) ==
  [err |-> \E n \in normalized : n.err,
   val |-> {n.val : n \in {m \in normalized : ~m.err /\ IsInternalPage(m.val)}}]

\* find_internal_links(soup, base_url): [err, val]; err is the ValueError of
\* _normalize_url, which nothing catches
find_internal_links(soup, base) ==
  InternalLinks({_normalize_url(href, base) : href \in soup.links})

\* ------------------------------------------ WebsiteCloner.scrape_full_site

FailOracle ==
  [pageok |-> FALSE, page |-> [links |-> {}, elems |-> <<>>, styles |-> 0],
   cssbody |-> <<>>, get |-> <<>>]

\* The oracles whose page is one of pages and whose stylesheet, if the page
\* has one, is one of bodies
OraclesWith(pages, bodies) ==
  {FailOracle} \cup
  UNION {UNION {{[pageok |-> TRUE, page |-> r, cssbody |-> c, get |-> g] :
                   g \in [1..GetBound(r.elems, c) -> BOOLEAN]} :
                c \in IF HasCss(r) THEN bodies ELSE {<<>>}} :
         r \in pages}

\* The oracles whose page is one of pages
OraclesOf(pages) == OraclesWith(pages, CssBodies)

Oracles == OraclesOf(Responses)
WellFormedOracles == OraclesOf(WellFormedResponses)
AssetOracles == OraclesOf(AssetResponses)

\* LoopCondition with the cap compared by <= : one page too many
LoopConditionInclusive ==
  pages_to_visit # {} /\ Cardinality(visited_pages) <= max_pages

\* The condition of the while loop
LoopCondition ==
  pages_to_visit # {} /\ Cardinality(visited_pages) < max_pages

\* pages_to_visit.update(new_links - self.visited_pages)
UpdateFrontier(frontier, new_links, visited) ==
  frontier \cup (new_links \ visited)

\* The links found on a page that is n - 1 links away from the start URL
Discovered(d, links, n) ==
  [u \in DOMAIN d \cup links |->
     IF u \in DOMAIN d /\ d[u] <= n THEN d[u] ELSE n]

\* The loop without its time.sleep(delay)
SleepForgotten(ev) == ev

\* time.sleep(delay), at the end of the body of the loop
Sleep(ev) == Append(ev, "sleep")

\* The cloner's fields after a call that leaves them as w
SetWorld(w) ==
  /\ visited_pages' = w.visited
  /\ downloaded_images' = w.imgs
  /\ downloaded_css' = w.css
  /\ downloaded_js' = w.js
  /\ inline_styles' = w.inline
  /\ files' = w.files
  /\ page_gets' = w.pgets
  /\ asset_gets' = w.agets
  /\ failed_pages' = w.failed
  /\ rewrites' = w.rw
  /\ console' = w.out

\* One iteration of the while loop, the site answering with one of oracles:
\* pop, the visited test, scrape_page, find_internal_links, the update of the
\* frontier, time.sleep(delay).  The ValueError of find_internal_links leaves
\* scrape_full_site: pc becomes "crashed".
Iteration(oracles) ==
  /\ pc = "loop"
  /\ LoopCondition
  /\ \E url \in pages_to_visit :
       LET popped == pages_to_visit \ {url}
       IN  IF url \in visited_pages
           THEN /\ pages_to_visit' = popped
                /\ SetWorld(World)
                /\ events' = <<>>
                /\ UNCHANGED <<pc, max_pages, summary, distance, call, limiter,
                               scraper, norm>>
           ELSE \E o \in IF Fetchable(url) THEN oracles ELSE {FailOracle} :
                \E s \in {scrape_page(World, url, o)} :
                \E new_links \in {IF s.soup.none
                                  THEN [err |-> FALSE, val |-> {}]
                                  ELSE find_internal_links(s.soup, url)} :
                      /\ SetWorld(s.w)
                      /\ events' = IF new_links.err THEN s.w.ev
                                   ELSE Sleep(s.w.ev)
                      /\ pc' = IF new_links.err THEN "crashed" ELSE "loop"
                      /\ pages_to_visit' =
                           IF new_links.err THEN popped
                           ELSE UpdateFrontier(popped, new_links.val, s.w.visited)
                      /\ distance' =
                           IF new_links.err THEN distance
                           ELSE Discovered(distance, new_links.val,
                                           distance[url] + 1)
                      /\ UNCHANGED <<max_pages, summary, call, limiter,
                                     scraper, norm>>

LoopIteration == Iteration(Oracles)

\* The document _save_summary writes
SummaryDoc ==
  [base_url |-> base_url,
   pages_scraped |-> Cardinality(visited_pages),
   visited_pages |-> visited_pages,
   images_downloaded |-> Cardinality(downloaded_images),
   image_urls |-> downloaded_images,
   css_files_downloaded |-> Cardinality(downloaded_css),
   css_urls |-> downloaded_css,
   js_files_downloaded |-> Cardinality(downloaded_js),
   js_urls |-> downloaded_js,
   inline_styles_count |-> inline_styles]

\* _save_summary called in the body of the loop instead of after it
SaveSummaryInLoop ==
  /\ pc = "loop"
  /\ summary' = Append(summary, SummaryDoc)
  /\ files' = IF inline_styles > 0
              THEN Put(files, <<"css", <<"inline", "_", "styles", ".", "css">>>>,
                       [src |-> <<>>, body |-> <<>>])
              ELSE files
  /\ pc' = IF LoopCondition THEN "loop" ELSE "done"
  /\ UNCHANGED <<max_pages, pages_to_visit, visited_pages, downloaded_images,
                 downloaded_css, downloaded_js, inline_styles, page_gets,
                 asset_gets, failed_pages, rewrites, distance, events, console,
                 call, limiter, scraper, norm>>

\* The end of scrape_full_site: the loop is left and _save_summary writes
\* scrape_summary.json and, when there are inline styles, css/inline_styles.css
SaveSummary ==
  /\ pc = "loop"
  /\ ~LoopCondition
  /\ summary' = Append(summary, SummaryDoc)
  /\ files' = IF inline_styles > 0
              THEN Put(files, <<"css", <<"inline", "_", "styles", ".", "css">>>>,
                       [src |-> <<>>, body |-> <<>>])
              ELSE files
  /\ pc' = "done"
  /\ UNCHANGED <<max_pages, pages_to_visit, visited_pages, downloaded_images,
                 downloaded_css, downloaded_js, inline_styles, page_gets,
                 asset_gets, failed_pages, rewrites, distance, events, console,
                 call, limiter, scraper, norm>>

\* No requests.get call on its own is going on
NoRequest == [site |-> "none", timeout |-> <<>>, elapsed |-> 0,
              status |-> "idle"]

\* No rate-limited fetch function is in use
NoLimiter == [site |-> "none"]

\* No run of scrape_products is going on
NoScraper == [pc |-> "none"]

\* No call of _normalize_url on its own is going on
NoCall == [pc |-> "idle", url |-> <<>>, base |-> <<>>, once |-> Ok(<<>>),
           twice |-> Ok(<<>>)]

\* The state of __init__ and of the first line of scrape_full_site:
\* pages_to_visit = {self.base_url}
Constructed ==
  /\ pages_to_visit = {base_url}
  /\ visited_pages = {}
  /\ downloaded_images = {}
  /\ downloaded_css = {}
  /\ downloaded_js = {}
  /\ inline_styles = 0
  /\ files = Empty
  /\ summary = <<>>
  /\ page_gets = Empty
  /\ asset_gets = Empty
  /\ failed_pages = {}
  /\ rewrites = {}
  /\ distance = Put(Empty, base_url, 0)
  /\ events = <<>>
  /\ console = {}

\* WebsiteCloner(start_url).scrape_full_site(max_pages) has been called
Init ==
  /\ pc = "loop"
  /\ max_pages \in 0..MaxCap
  /\ Constructed
  /\ norm = NoCall
  /\ call = NoRequest
  /\ limiter = NoLimiter
  /\ scraper = NoScraper

Next == LoopIteration \/ SaveSummary

Spec == Init /\ [][Next]_vars

\* The loop is scheduled until it is left: every enabled step is taken
FairSpec == Spec /\ WF_vars(Next)

\* ------------------------------------------------- the crawl of an asset-rich site

\* One iteration of the loop on a site of two pages with stylesheets,
\* scripts, images, icons, style attributes and fonts
AssetIteration == Iteration(AssetOracles)

\* scrape_full_site(max_pages=MaxCap) has been called
InitAssets ==
  /\ pc = "loop"
  /\ max_pages = MaxCap
  /\ Constructed
  /\ norm = NoCall
  /\ call = NoRequest
  /\ limiter = NoLimiter
  /\ scraper = NoScraper

NextAssets == AssetIteration \/ SaveSummary

SpecAssets == InitAssets /\ [][NextAssets]_vars

\* ------------------------------------------------- _normalize_url on its own

\* The raw references _normalize_url is called on
RawUrls ==
  RefPool \cup
  { <<>>,
    <<"#", "top">>,
    <<"/", "a", "#", "top">>,
    <<"a", "/", ".", ".", "/", "b", "?", "q">>,
    <<"https", ":", "/", "/", "example", ".", "test", "/", "a", "?", "q", "#", "f">>,
    <<"HTTPS", ":", "/", "/", "example", ".", "test", "/", "a">>,
    <<"/", "/", "other", ".", "test", "/", "x">>,
    <<"mailto", ":", "x">>,
    <<"data", ":", "abc">>,
    <<"DATA", ":", "abc">>,
    <<"javascript", ":", "void(0)">>,
    <<"JavaScript", ":", "void(0)">> }

\* The bases: none (self.base_url is used), the site, a page, a stylesheet
Bases ==
  { <<>>, base_url, start_url, base_url \o LinkA,
    base_url \o <<"/", "css", "/">> \o RefCss }

\* self._normalize_url(url, base) returns or raises
NormalizeOnce ==
  /\ norm.pc = "call"
  /\ \E n \in {_normalize_url(norm.url, norm.base)} :
       norm' = [norm EXCEPT !.once = n,
                            !.pc = IF n.err THEN "raised" ELSE "again"]
  /\ UNCHANGED <<pc, max_pages, pages_to_visit, visited_pages,
                 downloaded_images, downloaded_css, downloaded_js,
                 inline_styles, files, summary, page_gets, asset_gets,
                 failed_pages, rewrites, distance, events, console, call,
                 limiter, scraper>>

\* self._normalize_url(<the first result>, base) returns or raises
NormalizeTwice ==
  /\ norm.pc = "again"
  /\ \E n \in {_normalize_url(norm.once.val, norm.base)} :
       norm' = [norm EXCEPT !.twice = n,
                            !.pc = IF n.err THEN "raised" ELSE "done"]
  /\ UNCHANGED <<pc, max_pages, pages_to_visit, visited_pages,
                 downloaded_images, downloaded_css, downloaded_js,
                 inline_styles, files, summary, page_gets, asset_gets,
                 failed_pages, rewrites, distance, events, console, call,
                 limiter, scraper>>

\* A cloner is constructed and no crawl runs
InitNormalize ==
  /\ pc = "idle"
  /\ max_pages = 0
  /\ Constructed
  /\ call = NoRequest
  /\ limiter = NoLimiter
  /\ scraper = NoScraper
  /\ norm \in {[NoCall EXCEPT !.pc = "call", !.url = u, !.base = b] :
                 u \in RawUrls, b \in Bases}

NextNormalize == NormalizeOnce \/ NormalizeTwice

SpecNormalize == InitNormalize /\ [][NextNormalize]_vars

\* --------------------------------- _normalize_url on two references on its own

\* The references that differ from url in the fragment only: without one,
\* with an empty one, with two other ones
FragmentVariants(url) ==
  {Before(url, "#") \o f :
     f \in {<<>>, <<"#">>, <<"#", "top">>, <<"#", "a", "/", "b">>}}

\* No call has returned yet
NoResult == Ok(<<>>)

\* self._normalize_url(url, base) returns or raises
NormalizeUrl ==
  /\ norm.pc = "pair"
  /\ norm' = [norm EXCEPT !.ret = _normalize_url(norm.url, norm.base),
                          !.pc = "other"]
  /\ UNCHANGED <<pc, max_pages, pages_to_visit, visited_pages,
                 downloaded_images, downloaded_css, downloaded_js,
                 inline_styles, files, summary, page_gets, asset_gets,
                 failed_pages, rewrites, distance, events, console, call,
                 limiter, scraper>>

\* self._normalize_url(other, base) returns or raises
NormalizeOther ==
  /\ norm.pc = "other"
  /\ norm' = [norm EXCEPT !.ret_other = _normalize_url(norm.other, norm.base),
                          !.pc = "compared"]
  /\ UNCHANGED <<pc, max_pages, pages_to_visit, visited_pages,
                 downloaded_images, downloaded_css, downloaded_js,
                 inline_styles, files, summary, page_gets, asset_gets,
                 failed_pages, rewrites, distance, events, console, call,
                 limiter, scraper>>

\* The calls on url and a reference that differs from it in the fragment only
FragmentPairs(url) ==
  {[pc |-> "pair", url |-> url, other |-> v, base |-> b,
    ret |-> NoResult, ret_other |-> NoResult] :
     v \in FragmentVariants(url), b \in Bases}

\* A cloner is constructed, no crawl runs, and _normalize_url is about to be
\* called on two references that differ in the fragment only
InitFragments ==
  /\ pc = "idle"
  /\ max_pages = 0
  /\ Constructed
  /\ call = NoRequest
  /\ limiter = NoLimiter
  /\ scraper = NoScraper
  /\ norm \in UNION {FragmentPairs(u) : u \in RawUrls}

NextFragments == NormalizeUrl \/ NormalizeOther

SpecFragments == InitFragments /\ [][NextFragments]_vars

\* ------------------------------------------------- _is_same_domain on its own

\* The sites: self.domain of a cloner constructed on each
SiteDomains ==
  { domain,
    <<"www", ".">> \o domain,
    <<"shop", ".", "www", ".">> \o domain }

\* The hosts of the URLs _is_same_domain is asked about
Hosts ==
  SiteDomains \cup
  { <<"other", ".", "test">>,
    <<"www", ".", "other", ".", "test">>,
    <<"shop", ".">> \o domain,
    <<"www", ".", "www", ".">> \o domain }

\* The absolute URLs _is_same_domain is asked about
HostUrls ==
  {s \o <<":", "/", "/">> \o h \o p :
     s \in {<<"https">>, <<"http">>}, h \in Hosts,
     p \in {<<>>, <<"/", "x">>, <<"/", "x", "?", "q">>}}

\* self._is_same_domain(url) returns, self.domain being norm.site
SameDomainCall ==
  /\ norm.pc = "ask"
  /\ norm' = [norm EXCEPT !.ret = _is_same_domain(norm.site, norm.url),
                          !.pc = "answered"]
  /\ UNCHANGED <<pc, max_pages, pages_to_visit, visited_pages,
                 downloaded_images, downloaded_css, downloaded_js,
                 inline_styles, files, summary, page_gets, asset_gets,
                 failed_pages, rewrites, distance, events, console, call,
                 limiter, scraper>>

\* A cloner is constructed on a site, no crawl runs, and _is_same_domain is
\* about to be called
InitSameDomain ==
  /\ pc = "idle"
  /\ max_pages = 0
  /\ Constructed
  /\ call = NoRequest
  /\ limiter = NoLimiter
  /\ scraper = NoScraper
  /\ norm \in {[pc |-> "ask", site |-> d, url |-> u, ret |-> FALSE] :
                 d \in SiteDomains, u \in HostUrls}

NextSameDomain == SameDomainCall

SpecSameDomain == InitSameDomain /\ [][NextSameDomain]_vars

\* ------------------------------------- the crawl of pages with pseudo-URLs

LinkScript == <<"javascript", ":", "void(0)">>
LinkScriptMixedCase == <<"JavaScript", ":", "void(0)">>
RefData == <<"data", ":", "abc">>
RefDataUpperCase == <<"DATA", ":", "abc">>

\* The documents of a site whose pages hold javascript: hrefs and data:
\* references, with the scheme in lower case or not
PseudoResponses ==
  {[links |-> L, elems |-> e, styles |-> 0] :
     L \in SUBSET {LinkA, LinkScript, LinkScriptMixedCase, RefDataUpperCase},
     e \in {<<>>, <<E("img", RefData)>>, <<E("img", RefDataUpperCase)>>,
            <<E("js", RefDataUpperCase)>>}}

PseudoOracles == OraclesOf(PseudoResponses)

\* One iteration of the loop on such a site
PseudoIteration == Iteration(PseudoOracles)

NextPseudo == PseudoIteration \/ SaveSummary

SpecPseudo == Init /\ [][NextPseudo]_vars

\* ------------------------------------- the crawl of pages with many links

LinkMail == <<"mailto", ":", "info">>
LinkPdf == <<"/", "report", ".", "pdf">>
LinkPdfPage == <<"/", "report", ".", "pdf", ".", "html">>
LinkOther == <<"/", "/", "other", ".", "test", "/", "x">>
LinkFragment == <<"/", "a", "#", "top">>

\* The documents of a site whose pages link to two pages, to a section of
\* one, to a mail address, to a PDF file, to the HTML view of that file and to
\* another site
LinkResponses ==
  {[links |-> L, elems |-> <<>>, styles |-> 0] :
     L \in SUBSET {LinkA, LinkB, LinkFragment, LinkMail, LinkPdf, LinkPdfPage,
                   LinkOther}}

LinkOracles == OraclesOf(LinkResponses)

\* One iteration of the loop on such a site
LinkIteration == Iteration(LinkOracles)

NextLinks == LinkIteration \/ SaveSummary

SpecLinks == Init /\ [][NextLinks]_vars

\* ------------------------------- the crawl of pages with a stylesheet

\* href of the <link> of the pages: the stylesheet is in a directory
RefCssDir == <<"css", "/", "styles", ".", "css">>

\* url(bg.png), url(../images/bg.png) and url(data:abc) in a stylesheet
CssRefSibling == <<"bg", ".", "png">>
CssRefImages == <<".", ".", "/", "images", "/", "bg", ".", "png">>

\* The documents of a site of two pages that share css/styles.css
StylesheetResponses ==
  {[links |-> L, elems |-> <<E("css", RefCssDir)>>, styles |-> 0] :
     L \in {{}, {LinkA}}}

\* What css/styles.css holds
StylesheetBodies ==
  {<<>>, <<CssRefSibling>>, <<CssRefFont>>, <<CssRefImages>>, <<RefData>>,
   <<CssRefSibling, CssRefFont>>, <<CssRefSibling, CssRefImages>>}

StylesheetOracles == OraclesWith(StylesheetResponses, StylesheetBodies)

\* One iteration of the loop on such a site
StylesheetIteration == Iteration(StylesheetOracles)

NextStylesheets == StylesheetIteration \/ SaveSummary

SpecStylesheets == Init /\ [][NextStylesheets]_vars

\* ------------------------- the crawl of pages whose images share a filename

\* /a/b.png and /a_b.png; /img/bg.png?v1 and /img/bg.png?v2
RefNested == <<"/", "a", "/", "b", ".", "png">>
RefFlat == <<"/", "a", "_", "b", ".", "png">>
RefQueryOne == RefImg \o <<"?", "v1">>
RefQueryTwo == RefImg \o <<"?", "v2">>

\* The documents of a site of two pages with one or two of these images
CollisionResponses ==
  {[links |-> L, elems |-> e, styles |-> 0] :
     L \in {{}, {LinkA}},
     e \in {<<E("img", RefNested)>>, <<E("img", RefFlat)>>,
            <<E("img", RefNested), E("img", RefFlat)>>,
            <<E("img", RefFlat), E("img", RefNested)>>,
            <<E("img", RefQueryOne), E("img", RefQueryTwo)>>}}

CollisionOracles == OraclesOf(CollisionResponses)

\* One iteration of the loop on such a site
CollisionIteration == Iteration(CollisionOracles)

NextCollisions == CollisionIteration \/ SaveSummary

SpecCollisions == Init /\ [][NextCollisions]_vars

\* ------------------------------------------- the download routines, call by call

\* The calls that are made
MaxDownloads == 3

\* The URLs the routines are called with
DownloadUrls ==
  {base_url \o RefImg, base_url \o <<"/">> \o RefCss, base_url \o RefJs}

\* What the server answers during one call: the stylesheet's url()s and the
\* outcomes of the GETs
DownloadOracles ==
  UNION {{[pageok |-> TRUE, page |-> FailOracle.page, cssbody |-> c,
           get |-> g] : g \in [1..(1 + Len(c)) -> BOOLEAN]} :
         c \in {<<>>, <<CssRefImg>>}}

\* self.download_image(url), self.download_css(url) or self.download_js(url)
Downloaded(routine, url, o) ==
  CASE routine = "download_image" -> download_image(World, url, o)
    [] routine = "download_css" -> download_css(World, url, o)
    [] routine = "download_js" -> download_js(World, url, o)

\* The first successful returns, with that of key if it is the first
FirstReturns(first, key, ret) ==
  IF ret # <<>> /\ key \notin DOMAIN first THEN Put(first, key, ret) ELSE first

\* One call of a download routine; norm notes the call, what it returned,
\* whether the routine had succeeded for the URL before, and the first
\* successful return of every routine and URL
DownloadCall ==
  /\ norm.pc = "download"
  /\ norm.n < MaxDownloads
  /\ \E routine \in {"download_image", "download_css", "download_js"} :
     \E url \in DownloadUrls :
     \E o \in DownloadOracles :
     \E d \in {Downloaded(routine, url, o)} :
       /\ SetWorld(d.w)
       /\ norm' = [pc |-> "download", n |-> norm.n + 1, routine |-> routine,
                   url |-> url, ret |-> d.ret,
                   again |-> <<routine, url>> \in DOMAIN norm.first,
                   first |-> FirstReturns(norm.first, <<routine, url>>, d.ret)]
  /\ UNCHANGED <<pc, max_pages, pages_to_visit, summary, distance, events,
                 call, limiter, scraper>>

\* A cloner is constructed and its download routines are about to be called
InitDownloads ==
  /\ pc = "idle"
  /\ max_pages = 0
  /\ Constructed
  /\ call = NoRequest
  /\ limiter = NoLimiter
  /\ scraper = NoScraper
  /\ norm = [pc |-> "download", n |-> 0, routine |-> "none", url |-> <<>>,
             ret |-> <<>>, again |-> FALSE, first |-> Empty]

NextDownloads == DownloadCall

SpecDownloads == InitDownloads /\ [][NextDownloads]_vars

\* ------------------------------------------ ProductScraper.scrape_products

\* The cloner's variables, which the other scripts leave alone
cloner ==
  <<pc, max_pages, pages_to_visit, visited_pages, downloaded_images,
    downloaded_css, downloaded_js, inline_styles, files, summary, page_gets,
    asset_gets, failed_pages, rewrites, distance, events, console, norm>>

\* The largest max_pages scrape_products is called with
MaxProductPages == 3

\* The url argument: "https://example.test/catalog"
CatalogUrl == base_url \o <<"/", "catalog">>

\* href of the a.next-page of a catalog page; <<>>: the page has no such link
\* or the link has no href
NextHrefs == {<<>>, <<"?", "p2">>, <<"/", "catalog">>, LinkBad}

\* What fetch_page can give: None after a RequestException ("error"), a
\* response whose status is 2xx but not 200, or a page with 200, some
\* products and perhaps a next-page link
FetchResults ==
  {[status |-> "error", products |-> <<>>, next |-> <<>>],
   [status |-> "204", products |-> <<>>, next |-> <<>>]}
  \cup {[status |-> "200", products |-> p, next |-> n] :
          p \in {<<>>, <<"x">>, <<"x", "y">>}, n \in NextHrefs}

\* return all_products
Returned(sc) == [sc EXCEPT !.pc = "returned", !.ret = sc.all_products]

\* current_url = urljoin(url, next_page['href']), joined being what urljoin
\* gave: its ValueError leaves scrape_products
NextPage(sc, joined) ==
  IF joined.err THEN [sc EXCEPT !.pc = "raised"]
  ELSE [sc EXCEPT !.current_url = joined.val, !.page = @ + 1]

\* The body of the loop after all_products.extend(products_on_page)
FindNextPage(sc, r) ==
  IF r.next = <<>> THEN Returned(sc) ELSE NextPage(sc, urljoin(sc.url, r.next))

\* The body of the loop after response = self.fetch_page(current_url)
ScrapeResponse(sc, r) ==
  IF r.status # "200" THEN Returned(sc)
  ELSE FindNextPage([sc EXCEPT !.all_products = @ \o r.products,
                               !.pages = Append(@, r.products)], r)

\* One pass of 'for page in range(1, max_pages + 1)'
ScrapeProductPage ==
  /\ scraper.pc = "loop"
  /\ scraper.page <= scraper.max_pages
  /\ \E r \in FetchResults :
       scraper' = ScrapeResponse([scraper EXCEPT
                                   !.fetched = Append(@, scraper.current_url)],
                                 r)
  /\ UNCHANGED <<cloner, call, limiter>>

\* The range is exhausted: return all_products
ReturnProducts ==
  /\ scraper.pc = "loop"
  /\ scraper.page > scraper.max_pages
  /\ scraper' = Returned(scraper)
  /\ UNCHANGED <<cloner, call, limiter>>

\* ProductScraper().scrape_products(CatalogUrl, selector, max_pages) has been
\* called
InitProducts ==
  /\ pc = "idle"
  /\ max_pages = 0
  /\ Constructed
  /\ norm = NoCall
  /\ call = NoRequest
  /\ limiter = NoLimiter
  /\ scraper \in {[pc |-> "loop", url |-> CatalogUrl, max_pages |-> n,
                    page |-> 1, current_url |-> CatalogUrl,
                    all_products |-> <<>>, ret |-> <<>>, fetched |-> <<>>,
                    pages |-> <<>>] : n \in 0..MaxProductPages}

NextProducts == ScrapeProductPage \/ ReturnProducts

SpecProducts == InitProducts /\ [][NextProducts]_vars

\* ------------------------------------------------- the network calls

\* The requests.get / session.get calls of the repository, each with its
\* timeout argument in seconds (<<>>: the call has none)
ClonerCalls ==
  { [site |-> "download_image", timeout |-> <<10>>],
    [site |-> "download_css", timeout |-> <<10>>],
    [site |-> "_download_font", timeout |-> <<10>>],
    [site |-> "download_js", timeout |-> <<10>>],
    [site |-> "scrape_page", timeout |-> <<15>>] }

WLUScraperCalls ==
  { [site |-> "get_course_links", timeout |-> <<>>],
    [site |-> "get_course_details", timeout |-> <<>>] }

WebScraperCalls == {[site |-> "WebScraper.fetch_page", timeout |-> <<30>>]}

ProductScraperCalls ==
  {[site |-> "ProductScraper.fetch_page", timeout |-> <<30>>]}

SelectorScraperCalls ==
  {[site |-> "SelectorScraper.fetch_page", timeout |-> <<30>>]}

DebugScraperCalls == {[site |-> "debug_scraper", timeout |-> <<15>>]}

TestLinksCalls == {[site |-> "test_links", timeout |-> <<15>>]}

NetworkCalls ==
  ClonerCalls \cup WLUScraperCalls \cup WebScraperCalls
  \cup ProductScraperCalls \cup SelectorScraperCalls
  \cup DebugScraperCalls \cup TestLinksCalls

\* The longest a silent server is watched
MaxWait == 31

\* The timeout of call c, if it has one, has run out
Expired(c) == c.timeout # <<>> /\ c.elapsed >= c.timeout[1]

\* requests.get(url, ...) is called
Request ==
  /\ call.status = "idle"
  /\ call' = [call EXCEPT !.status = "waiting"]
  /\ UNCHANGED <<cloner, limiter, scraper>>

\* The server answers with a 2xx response
Respond ==
  /\ call.status = "waiting"
  /\ ~Expired(call)
  /\ call' = [call EXCEPT !.status = "response"]
  /\ UNCHANGED <<cloner, limiter, scraper>>

\* The server answers with an error status, or the transport fails:
\* raise_for_status() or requests.get raises
FailRequest ==
  /\ call.status = "waiting"
  /\ ~Expired(call)
  /\ call' = [call EXCEPT !.status = "failure"]
  /\ UNCHANGED <<cloner, limiter, scraper>>

\* A second passes without an answer
Tick ==
  /\ call.status = "waiting"
  /\ ~Expired(call)
  /\ call.elapsed < MaxWait
  /\ call' = [call EXCEPT !.elapsed = @ + 1]
  /\ UNCHANGED <<cloner, limiter, scraper>>

\* The timeout of the call expires: requests.get raises Timeout
TimeOut ==
  /\ call.status = "waiting"
  /\ Expired(call)
  /\ call' = [call EXCEPT !.status = "failure"]
  /\ UNCHANGED <<cloner, limiter, scraper>>

\* One of the scripts is about to issue one of its network calls
InitCalls ==
  /\ pc = "idle"
  /\ max_pages = 0
  /\ Constructed
  /\ norm = NoCall
  /\ limiter = NoLimiter
  /\ scraper = NoScraper
  /\ call \in {[site |-> c.site, timeout |-> c.timeout, elapsed |-> 0,
                 status |-> "idle"] : c \in NetworkCalls}

NextCalls == Request \/ Respond \/ FailRequest \/ Tick \/ TimeOut

\* The clock runs and a timeout that has expired is raised; the server owes
\* no answer
SpecCalls ==
  InitCalls /\ [][NextCalls]_vars /\ WF_vars(Tick) /\ WF_vars(TimeOut)

\* ------------------------------------------------- the rate limit

\* The functions that fetch pages, each with the @limits(calls, period) of its
\* decorators (<<>>: the function has none)
WebScraperFetch ==
  [site |-> "WebScraper.fetch_page", limits |-> <<5, 10>>]

ProductScraperFetch ==
  [site |-> "ProductScraper.fetch_page", limits |-> <<3, 10>>]

SelectorScraperFetch ==
  [site |-> "SelectorScraper.fetch_page", limits |-> <<3, 10>>]

ClonerFetch == [site |-> "scrape_page", limits |-> <<>>]

Fetchers ==
  {WebScraperFetch, ProductScraperFetch, SelectorScraperFetch, ClonerFetch}

\* The seconds the clock is watched, and the fetches that are asked for
MaxClock == 21
MaxFetches == 7

\* ratelimit: period - (clock() - last_reset)
period_remaining(l) == l.limits[2] - (l.clock - l.last_reset)

\* The request is performed: func(*args, **kargs)
Performed(l) ==
  [l EXCEPT !.in_window = @ + 1, !.total = @ + 1, !.status = "idle"]

\* ratelimit: a new window begins when the period is over
Reset(l) ==
  IF period_remaining(l) <= 0
  THEN [l EXCEPT !.num_calls = 0, !.last_reset = l.clock, !.in_window = 0]
  ELSE l

\* ratelimit: num_calls += 1
Counted(l) == [l EXCEPT !.num_calls = @ + 1]

\* ratelimit: beyond the limit RateLimitException(period_remaining) is raised,
\* and sleep_and_retry sleeps that long before it calls again
Admit(l) ==
  IF l.num_calls > l.limits[1]
  THEN [l EXCEPT !.status = "sleeping", !.wake = l.clock + period_remaining(l)]
  ELSE Performed(l)

\* The decorated function: the wrappers of @sleep_and_retry and @limits around
\* the request, or the request alone
limits(l) == IF l.limits = <<>> THEN Performed(l) ELSE Admit(Counted(Reset(l)))

\* Some caller calls the fetch function
FetchPage ==
  /\ limiter.site # "none"
  /\ limiter.status = "idle"
  /\ limiter.total < MaxFetches
  /\ limiter' = limits(limiter)
  /\ UNCHANGED <<cloner, call, scraper>>

\* time.sleep(period_remaining) is over: sleep_and_retry calls again
Retry ==
  /\ limiter.site # "none"
  /\ limiter.status = "sleeping"
  /\ limiter.clock >= limiter.wake
  /\ limiter' = limits(limiter)
  /\ UNCHANGED <<cloner, call, scraper>>

\* A second passes
ClockTick ==
  /\ limiter.site # "none"
  /\ limiter.clock < MaxClock
  /\ limiter' = [limiter EXCEPT !.clock = @ + 1]
  /\ UNCHANGED <<cloner, call, scraper>>

\* One of the scripts has been imported: RateLimitDecorator.__init__ has read
\* the clock
InitRate ==
  /\ pc = "idle"
  /\ max_pages = 0
  /\ Constructed
  /\ norm = NoCall
  /\ call = NoRequest
  /\ scraper = NoScraper
  /\ limiter \in {[site |-> f.site, limits |-> f.limits, clock |-> 0,
                    last_reset |-> 0, num_calls |-> 0, in_window |-> 0,
                    total |-> 0, status |-> "idle", wake |-> 0] :
                   f \in Fetchers}

NextRate == FetchPage \/ Retry \/ ClockTick

SpecRate == InitRate /\ [][NextRate]_vars

\* ------------------------------------------------- the course code pattern

\* A text is a sequence of characters; a character outside ASCII goes by its
\* code point
AsciiUpper ==
  {"A", "B", "C", "D", "E", "F", "G", "H", "I", "J", "K", "L", "M", "N", "O",
   "P", "Q", "R", "S", "T", "U", "V", "W", "X", "Y", "Z"}

AsciiDigits == {"0", "1", "2", "3", "4", "5", "6", "7", "8", "9"}

\* U+0663 ARABIC-INDIC DIGIT THREE is a decimal digit, U+00C9 LATIN CAPITAL
\* LETTER E WITH ACUTE an uppercase letter
OtherDigits == {"U+0663"}

\* re: the characters a class of a str pattern matches
InClass(c, class) ==
  CASE class = "[A-Z]" -> c \in AsciiUpper
    [] class = "\\d" -> c \in AsciiDigits \cup OtherDigits
    [] OTHER -> FALSE

\* re.compile(r'[A-Z]{2}\d{3}'): the pattern's items, a class and its count
course_code_pattern ==
  <<[class |-> "[A-Z]", count |-> 2], [class |-> "\\d", count |-> 3]>>

\* re: s has `count` characters of the class from position i on
Repeats(s, i, class, count) ==
  /\ i + count - 1 <= Len(s)
  /\ \A j \in i..(i + count - 1) : InClass(s[j], class)

\* re: the items match s from position i on
RECURSIVE MatchAt(_, _, _)
MatchAt(pattern, s, i) ==
  IF pattern = <<>> THEN TRUE
  ELSE /\ Repeats(s, i, Head(pattern).class, Head(pattern).count)
       /\ MatchAt(Tail(pattern), s, i + Head(pattern).count)

\* pattern.search(s) is not None, as a pattern that matches anywhere would do
match_anywhere(pattern, s) == \E i \in 1..(Len(s) + 1) : MatchAt(pattern, s, i)

\* pattern.match(s) is not None: the pattern matches at the beginning of s
match(pattern, s) == MatchAt(pattern, s, 1)

\* The longest text that is tried
MaxText == 6

\* The characters texts are made of
Chars == {"C", "c", "1", "U+0663", "U+00C9"}

\* The texts that are tried
Texts == UNION {[1..n -> Chars] : n \in 0..MaxText}

\* self.course_code_pattern.match(link.text.strip())
CourseCodeMatch ==
  /\ norm.pc = "text"
  /\ norm' = [norm EXCEPT !.matched = match(course_code_pattern, norm.s),
                          !.pc = "matched"]
  /\ UNCHANGED <<pc, max_pages, pages_to_visit, visited_pages,
                 downloaded_images, downloaded_css, downloaded_js,
                 inline_styles, files, summary, page_gets, asset_gets,
                 failed_pages, rewrites, distance, events, console, call,
                 limiter, scraper>>

\* A WLUScraper is constructed and a link text is about to be tested
InitCourseCode ==
  /\ pc = "idle"
  /\ max_pages = 0
  /\ Constructed
  /\ call = NoRequest
  /\ limiter = NoLimiter
  /\ scraper = NoScraper
  /\ norm \in {[pc |-> "text", s |-> s, matched |-> FALSE] : s \in Texts}

NextCourseCode == CourseCodeMatch

SpecCourseCode == InitCourseCode /\ [][NextCourseCode]_vars

\* ------------------------------------------------- the crawl of well-formed pages

\* One iteration of the loop on pages none of whose references is malformed
WellFormedIteration == Iteration(WellFormedOracles)

NextWellFormed == WellFormedIteration \/ SaveSummary

FairSpecWellFormed ==
  Init /\ [][NextWellFormed]_vars /\ WF_vars(NextWellFormed)

\* On pages without a malformed reference the loop is left and the summary
\* stays written, whatever the links and the fetch outcomes are
WellFormedCrawlEnds == <>[](pc = "done" /\ Len(summary) = 1)

\* ------------------------------------------------------------------ claims

\* C1: during a run of scrape_full_site(max_pages=N) visited_pages never
\* holds more than N URLs, whatever the links and the fetch outcomes are.
VisitedWithinCap == Cardinality(visited_pages) <= max_pages

\* C1, its case: the run ended at the cap, pages left in the frontier and a
\* page fetch having failed on the way
CapReachedWithFrontierLeft ==
  /\ pc = "done"
  /\ max_pages = 2
  /\ Cardinality(visited_pages) = 2
  /\ pages_to_visit # {}
  /\ failed_pages # {}

\* C2: whatever the links and the fetch outcomes are, the loop is left and
\* the run reaches the writing of the summary.
ReachesSummary == <>(pc = "done")

\* C3: visited_pages only grows; no page GET is issued for a URL that is in
\* visited_pages; scrape_page on such a URL returns None and changes nothing.
VisitedNeverRefetched ==
  [][/\ visited_pages \subseteq visited_pages'
     /\ \A u \in visited_pages : Count(page_gets', u) = Count(page_gets, u)
     /\ \A u \in visited_pages : \A o \in Oracles :
          scrape_page(World, u, o) = Scraped(World, None)]_vars

\* C3, its case: the run ended with several pages visited after a fetch of
\* each, the start page among them
SeveralVisitedOnce ==
  /\ pc = "done"
  /\ base_url \in visited_pages
  /\ Cardinality(visited_pages) >= 2
  /\ \A u \in visited_pages : Count(page_gets, u) >= 1

\* C4: a page whose fetch failed is in visited_pages.
FailedPageIsVisited == failed_pages \subseteq visited_pages

\* C5: at most one page GET is issued for a URL in a run.
AtMostOnePageGet == \A u \in DOMAIN page_gets : page_gets[u] <= 1

\* The URLs a summary document records
RecordedUrls(doc) ==
  doc.visited_pages \cup doc.image_urls \cup doc.css_urls \cup doc.js_urls

\* C6: the summary written at the end of the run records every page whose
\* fetch failed.
SummaryRecordsFailures ==
  pc = "done" => \A u \in failed_pages : u \in RecordedUrls(summary[Len(summary)])

\* C7: no failure leaves scrape_full_site before the summary is written.
NoFailureAborts == pc # "crashed"

\* C8: at most one GET is issued for an asset URL in a run.
AtMostOneAssetGet == \A u \in DOMAIN asset_gets : asset_gets[u] <= 1

RewrittenSrcs(f) ==
  {f.body[i].ref : i \in {j \in 1..Len(f.body) : f.body[j].tag = "img"}}
  \cap {r.local : r \in rewrites}

NormalizeIdempotent == norm.pc = "done" => norm.twice = norm.once

\* C11 as stated: _normalize_url gives the same for two references that
\* differ in the fragment only, against the same base.
FragmentIgnored == norm.pc = "compared" => norm.ret = norm.ret_other

\* C11 as amended: the same, for two references neither of which is the
\* empty string.
FragmentIgnoredUnlessEmpty ==
  (norm.pc = "compared" /\ norm.url # <<>> /\ norm.other # <<>>)
    => norm.ret = norm.ret_other

\* C11, its case: a reference without a fragment and the same with a fragment
\* were normalized to the same absolute URL
FragmentPairNormalized ==
  /\ norm.pc = "compared"
  /\ ~HasTok(norm.url, "#") /\ HasTok(norm.other, "#")
  /\ norm.ret = norm.ret_other
  /\ norm.ret.val # <<>>

\* Two hosts that are equal or differ in a leading 'www.' only
WwwEquivalent(h, d) ==
  h = d \/ h = <<"www", ".">> \o d \/ d = <<"www", ".">> \o h

\* C12: a URL with a host is same-domain exactly when its host is the site's
\* domain up to a leading 'www.', in either direction.
SameDomainIsWwwEquivalence ==
  norm.pc = "answered"
    => (norm.ret <=> WwwEquivalent(urlparse(norm.url, <<>>).netloc, norm.site))

\* A data: URL or a javascript: pseudo-URL (the scheme of a URL is
\* case-insensitive)
IsPseudoUrl(url) ==
  Lower(Before(url, ":")) \in {<<"data">>, <<"javascript">>} /\ HasTok(url, ":")

\* C13: no frontier entry and no request is ever created from a data: or
\* javascript: reference.
NoPseudoUrlUsed ==
  \A u \in pages_to_visit \cup DOMAIN page_gets \cup DOMAIN asset_gets :
    ~IsPseudoUrl(u)

\* The directory and the filename prefix of the download an element's tag
\* selects for absolute_url
AssetDir(tag, absolute_url) ==
  IF tag = "css" THEN "css"
  ELSE IF tag = "js" THEN "js"
  ELSE IF tag = "style" /\ ~HasAnyExt(Lower(absolute_url), ImageExts)
  THEN "fonts" ELSE "images"

AssetPrefix(tag, absolute_url) ==
  IF tag = "css" THEN "style"
  ELSE IF tag = "js" THEN "script"
  ELSE IF tag = "style" /\ ~HasAnyExt(Lower(absolute_url), ImageExts)
  THEN "font" ELSE "img"

\* Where the asset an element refers to is stored when it is downloaded
AssetKey(tag, absolute_url) ==
  <<AssetDir(tag, absolute_url),
    _get_filename_from_url(absolute_url,
                           <<AssetPrefix(tag, absolute_url), "_">>)>>

\* The element e of a page, saved as out: when the asset is not stored, the
\* reference has its original value and a fetchable asset was requested
\* during the call (w0 before it, w1 after it); when it is stored, the
\* reference has its original value or the local path of the stored file
ElemKept(w0, w1, e, out, key, absolute_url) ==
  /\ out.tag = e.tag
  /\ IF absolute_url = <<>> \/ key \notin DOMAIN w1.files
     THEN /\ out.ref = e.ref
          /\ Fetchable(absolute_url)
               => Count(w1.agets, absolute_url) > Count(w0.agets, absolute_url)
     ELSE out.ref \in {e.ref, LocalRef(key[1], key[2])}

\* The saved page holds every element of the document, each kept as above
BodyKept(w0, w1, elems, body, url) ==
  /\ Len(body) = Len(elems)
  /\ \A i \in 1..Len(elems) :
       ElemKept(w0, w1, elems[i], body[i],
                AssetKey(elems[i].tag, _normalize_url(elems[i].ref, url).val),
                _normalize_url(elems[i].ref, url).val)

\* scrape_page returned the soup and saved the page with its elements kept
PageKept(w0, s, key, url, o) ==
  /\ ~s.soup.none
  /\ key \in DOMAIN s.w.files
  /\ BodyKept(w0, s.w, InScrapeOrder(o.page.elems), s.w.files[key].body, url)

\* The answers of the site with a page that is fetched and none of whose
\* references is malformed
FetchedWellFormed ==
  {o \in AssetOracles :
     /\ o.pageok
     /\ \A i \in 1..Len(o.page.elems) : WellFormed(o.page.elems[i].ref)}

\* C14: whatever asset fetches fail during scrape_page, the page is saved
\* with all its elements, and the reference of an asset that was requested
\* and not stored keeps its original value.
AssetFailureKeepsPage ==
  (pc = "loop" /\ LoopCondition) =>
    \A url \in pages_to_visit \ visited_pages : \A o \in FetchedWellFormed :
      PageKept(World, scrape_page(World, url, o),
               <<"html", _get_filename_from_url(url, <<"page", "_">>)>>,
               url, o)

\* C14, its case: a saved page holds an <img> whose fetch failed, with its
\* original src, in front of another element that was rewritten
FailedImageKeptInSavedPage ==
  \E k \in DOMAIN files :
    /\ k[1] = "html"
    /\ \E i \in 1..Len(files[k].body) : \E j \in 1..Len(files[k].body) :
         /\ files[k].body[i] = E("img", RefImg)
         /\ files[k].body[j].ref \in {r.local : r \in rewrites}
    /\ downloaded_images = {}
    /\ \E u \in DOMAIN asset_gets : u \notin downloaded_js \cup downloaded_css

\* The stylesheet and the image of the scenario, as absolute URLs
StylesheetUrl == base_url \o <<"/">> \o RefCss
BackgroundUrl == base_url \o RefImg

\* The start page was scraped; it referenced styles.css, which referenced
\* url(../img/bg.png) and nothing else; one GET was issued for each of the
\* two and both succeeded
StylesheetScenario ==
  /\ visited_pages = {base_url}
  /\ failed_pages = {}
  /\ DOMAIN asset_gets = {StylesheetUrl, BackgroundUrl}
  /\ asset_gets[StylesheetUrl] = 1 /\ asset_gets[BackgroundUrl] = 1
  /\ downloaded_css = {StylesheetUrl}
  /\ downloaded_images = {BackgroundUrl}

\* The files css/style_styles.css and images/<image> exist and the url() of
\* the local stylesheet is ../images/<image>
StylesheetMirrored(image) ==
  /\ <<"css", <<"style", "_", "styles", ".", "css">>>> \in DOMAIN files
  /\ <<"images", image>> \in DOMAIN files
  /\ files[<<"css", <<"style", "_", "styles", ".", "css">>>>].body
       = <<LocalRef("images", image)>>

\* C15 as stated: in the scenario css/style_styles.css and images/img_bg.png
\* exist and the url() of the local stylesheet is ../images/img_bg.png.
StylesheetImageAsImgBg ==
  StylesheetScenario => StylesheetMirrored(<<"img", "_", "bg", ".", "png">>)

\* C15 as amended: the image is images/img_img_bg.png, the prefix img_ in
\* front of the flattened path img/bg.png, and the url() is
\* ../images/img_img_bg.png.
StylesheetImageAsImgImgBg ==
  StylesheetScenario
    => StylesheetMirrored(<<"img", "_", "img", "_", "bg", ".", "png">>)

\* C15, its case: the scenario has happened and the run has ended
StylesheetScenarioDone == StylesheetScenario /\ pc = "done"

\* The files under html/
HtmlFiles == {k \in DOMAIN files : k[1] = "html"}

\* C16: a run with page cap 1 whose start page was fetched ends with one
\* file under html/ and pages_scraped = 1 in the summary.
CapOneSavesOnePage ==
  (pc = "done" /\ max_pages = 1 /\ base_url \in visited_pages)
    => /\ Cardinality(HtmlFiles) = 1
       /\ summary[Len(summary)].pages_scraped = 1

\* C17: the page a step of the loop takes from the frontier is not further
\* from the start URL than any page waiting in the frontier.
BreadthFirst ==
  [][\A u \in pages_to_visit \ pages_to_visit' : \A v \in pages_to_visit :
       distance[u] <= distance[v]]_vars

\* The counts of a summary document are the sizes of its URL lists and of
\* the tracking sets
CountsMatch(doc, pages, images, css, js) ==
  /\ doc.visited_pages = pages /\ doc.pages_scraped = Cardinality(pages)
  /\ doc.image_urls = images /\ doc.images_downloaded = Cardinality(images)
  /\ doc.css_urls = css /\ doc.css_files_downloaded = Cardinality(css)
  /\ doc.js_urls = js /\ doc.js_files_downloaded = Cardinality(js)

SequentialWithDelay ==
  (events # <<>> /\ pc # "crashed") =>
    /\ events[Len(events)] = "sleep"
    /\ \A i \in 1..(Len(events) - 1) : events[i] # "sleep"
    /\ \A i \in 2..Len(events) : events[i] # "page"

\* C19, its case: the second page of a run was fetched, then an asset of it,
\* then the loop slept
SecondPageThenAssetThenSleep ==
  /\ events = <<"page", "asset", "sleep">>
  /\ Cardinality(visited_pages) = 2

\* C20: every network call that is issued returns a response or a failure.
EveryCallReturns ==
  (call.status = "waiting") ~> (call.status \in {"response", "failure"})

\* C21: every fetch goes through a rate limit of N requests per fixed window,
\* and in no window are more than N requests issued.
EveryFetchRateLimited ==
  limiter.total > 0 =>
    /\ limiter.limits # <<>>
    /\ limiter.in_window <= limiter.limits[1]

\* The text begins with two letters A-Z immediately followed by three digits
BeginsWithCourseCode(s) ==
  /\ Len(s) >= 5
  /\ {s[1], s[2]} \subseteq AsciiUpper
  /\ {s[3], s[4], s[5]} \subseteq AsciiDigits \cup OtherDigits

\* C22: course_code_pattern.match(s) succeeds exactly when s begins with two
\* uppercase letters immediately followed by three digits.
CourseCodeMatchExact ==
  norm.pc = "matched" => (norm.matched <=> BeginsWithCourseCode(norm.s))

\* A course code followed by more text has been matched
CourseCodeWithTailMatched ==
  /\ norm.pc = "matched"
  /\ norm.matched
  /\ norm.s = <<"C", "C", "1", "1", "1", "c">>

\* p are the parts of an absolute, fragment-free URL of the site
IsSiteUrlParsed(p) ==
  /\ p.scheme \in {<<"http">>, <<"https">>}
  /\ WwwEquivalent(p.netloc, domain)
  /\ p.fragment = <<>>

\* An absolute, fragment-free URL of the site that has none of the non-HTML
\* extensions
IsSitePage(u) ==
  IsSiteUrlParsed(urlparse(u, <<>>)) /\ ~HasAnyExt(Lower(u), NonHtmlExts)

\* C23: every URL of the frontier is an absolute, fragment-free URL on the
\* domain of the start URL and has no denylisted extension.
FrontierHoldsSitePages == \A u \in pages_to_visit : IsSitePage(u)

\* The argument of a url(...) that is no data: URL and names an image or a
\* font by its extension
IsCssAsset(ref) ==
  /\ ~StartsWith(ref, <<"data", ":">>)
  /\ HasAnyExt(Lower(ref), ImageExts \cup FontExts)

\* The argument of a url(...) of a saved stylesheet is the local path of a
\* file that was downloaded for it
IsLocalCopy(ref) ==
  \E r \in rewrites :
    /\ r.kind \in {"image", "font"}
    /\ r.local = ref
    /\ \E k \in DOMAIN files : LocalRef(k[1], k[2]) = ref /\ files[k].src = r.url

\* The target of a url(...) of the stylesheet at css_url, resolved against
\* that URL
CssTarget(ref, css_url) == _normalize_url(ref, css_url).val

\* C24: every url(...) of a saved stylesheet that names an image or a font
\* and is no data: URL has been rewritten to the local path of its download,
\* or at least a GET was issued for its target, resolved against the
\* stylesheet's URL.
StylesheetRefsDownloaded ==
  \A k \in {f \in DOMAIN files : f[1] = "css"} :
    \A i \in 1..Len(files[k].body) :
      IsCssAsset(files[k].body[i]) =>
        \/ IsLocalCopy(files[k].body[i])
        \/ CssTarget(files[k].body[i], files[k].src) \in DOMAIN asset_gets

\* The rewritten HTML of page u is in the mirror
PageSaved(u) ==
  \E k \in HtmlFiles : k[2] = _get_filename_from_url(u, <<"page", "_">>)

\* C25: when the loop has been left, the rewritten HTML of every page of
\* visited_pages has been saved, and the cap was not exceeded.
VisitedPagesAllSaved ==
  pc # "loop" =>
    /\ Cardinality(visited_pages) <= max_pages
    /\ \A u \in visited_pages : PageSaved(u)

\* The local filename of a downloaded image
ImageFile(u) == _get_filename_from_url(u, <<"img", "_">>)

\* The lines the download routines write about a download
RoutineReports ==
  {"Downloaded image", "Error downloading image", "Downloading CSS",
   "Downloaded CSS", "Error downloading CSS", "Downloaded font",
   "Error downloading font", "Downloading JS", "Downloaded JS",
   "Error downloading JS"}

\* A line about the file was written that is none of the routine reports
WarnedAbout(filename) ==
  \E m \in console : m.arg = filename /\ m.text \notin RoutineReports

\* C26: when two distinct image URLs that were downloaded have the same
\* local filename, both were fetched, the file holds one of them, and a
\* warning about the collision was written.
CollisionWarned ==
  \A u, v \in downloaded_images :
    (u # v /\ ImageFile(u) = ImageFile(v)) =>
      /\ {u, v} \subseteq DOMAIN asset_gets
      /\ files[<<"images", ImageFile(u)>>].src \in {u, v}
      /\ WarnedAbout(ImageFile(u))

\* C27: a call of download_image, download_css or download_js for a URL the
\* routine has succeeded for issues no request, writes no file, leaves the
\* tracking sets as they are and returns what the first call returned.
RepeatedDownloadIsNoOp ==
  [][(norm.pc = "download" /\ norm'.again) =>
       /\ asset_gets' = asset_gets
       /\ files' = files
       /\ downloaded_images' = downloaded_images
       /\ downloaded_css' = downloaded_css
       /\ downloaded_js' = downloaded_js
       /\ norm'.ret = norm.first[<<norm'.routine, norm'.url>>]]_vars

\* A stylesheet that was downloaded has been asked for again
StylesheetAskedAgain ==
  /\ norm.pc = "download"
  /\ norm.routine = "download_css"
  /\ norm.again
  /\ norm.url \in downloaded_css

RECURSIVE Concat(_)
\* The product lists of the pages, one after the other
Concat(lists) == IF lists = <<>> THEN <<>> ELSE Head(lists) \o Concat(Tail(lists))

\* C28: scrape_products fetches at most max_pages pages, never ends without
\* returning, and returns the products of the pages it fetched, in page order.
ScrapeProductsReturnsCollected ==
  /\ Len(scraper.fetched) <= scraper.max_pages
  /\ scraper.pc # "raised"
  /\ scraper.pc = "returned" => scraper.ret = Concat(scraper.pages)

====
